---- MODULE Spec2Model ----
(***************************************************************************)
(* Support-polygon constraint generator of idynutils (convex_hull).        *)
(*                                                                         *)
(* Numbers.  The program works on doubles; the model works on integers.    *)
(* A coordinate n stands for the length n/10, so a product of two          *)
(* coordinates (the line coefficient c, an entry of b) n stands for n/100. *)
(* In these units the program's margin 1e-2 is the integer 1.              *)
(***************************************************************************)
EXTENDS Integers, Sequences, FiniteSets

\* ---------------------------------------------------------------- bounds

\* Longest list of points a caller passes.
MaxLen == 4

\* A call is followed only while _pointCloud holds at most this many points
\* left over by earlier calls.
MaxStale == 1

\* Contact points the caller chooses from: the corners of the square of
\* side 2 centred on the origin, a point above the plane on its diagonal
\* and a point next to the origin.
Catalogue ==
  << <<10, 10, 0>>, <<10, -10, 0>>, <<-10, -10, 0>>, <<-10, 10, 0>>,
     <<1, 1, 3>>, <<0, 1, 0>> >>

\* The caller of the support-point supplier is followed while its list
\* holds fewer points than this many calls add.
MaxPolls == 2

\* What the caller's A and b may hold before the first call: the possible
\* sizes and the value of every entry.
PriorSizes == {0, 5}
PriorEntry == {7}

\* Values a row that resize() adds and nothing writes may hold.
Unwritten == {0, 9}

\* ------------------------------------------------------------- helpers

Abs(n) == IF n < 0 THEN -n ELSE n

RECURSIVE SubSeqsOf(_, _)
\* The order-preserving selections of at most k elements of the sequence s.
SubSeqsOf(s, k) ==
  IF s = <<>> \/ k = 0 THEN { <<>> }
  ELSE LET rest == SubSeq(s, 2, Len(s))
       IN  SubSeqsOf(rest, k) \cup { <<s[1]>> \o t : t \in SubSeqsOf(rest, k - 1) }

Range(s) == { s[i] : i \in 1..Len(s) }

Reverse(s) == [i \in 1..Len(s) |-> s[Len(s) + 1 - i]]

Rotate(s, k) == [i \in 1..Len(s) |-> s[((i - 1 + k) % Len(s)) + 1]]

\* ---------------------------------------------------------------- state

VARIABLES
  _pointCloud,           \* member: the collected points
  _projectedPointCloud,  \* member: the points projected on the plane
  A, b,                  \* the caller's matrix (rows <<a0, a1>>) and vector
  points,                \* the list passed to the last call
  projIn,                \* the cloud the last call handed to the projector
  hullIn,                \* the cloud the last call handed to the hull builder
  pointsInConvexHull,    \* local of the last call: the hull points
  indicesOfVertexes,     \* local of the last call: the loops (0-based indices)
  rowsWritten,           \* local z of getConstraints in the last call
  outcome,               \* "none", "ok" or "error" (the ROS_ERROR return)
  winding,               \* the hull builder's fixed loop direction
  clouds,                \* two threads: the two members of every object
  call,                  \* two threads: each thread's call, its place and locals
  supportPolygonPoints,  \* supplier: the caller's list `points`
  listBefore,            \* supplier: that list when the last call began
  robotSeen              \* supplier: the robot state the last call read

\* The state of the calls made one after the other on one object.
hullVars == << _pointCloud, _projectedPointCloud, A, b, points, projIn, hullIn,
               pointsInConvexHull, indicesOfVertexes, rowsWritten, outcome >>

\* The state of the calls two threads make.
threadVars == << clouds, call >>

\* The state of the support-point supplier and its caller.
supplierVars == << supportPolygonPoints, listBefore, robotSeen >>

vars == << hullVars, winding, threadVars, supplierVars >>

\* ------------------------------------------------- the planar projector

\* The plane (1 0 0), offset 0.
coefficients_WrongAxis == <<1, 0, 0, 0>>

\* The plane (0 0 1), offset 0, set in projectPCL2Plane.
coefficients == <<0, 0, 1, 0>>

\* ProjectPoint with the distance taken twice: the mirror image.
ProjectPoint_Reflected(p) ==
  LET d == coefficients[1] * p[1] + coefficients[2] * p[2]
             + coefficients[3] * p[3] + coefficients[4]
  IN  << p[1] - 2 * d * coefficients[1],
         p[2] - 2 * d * coefficients[2],
         p[3] - 2 * d * coefficients[3] >>

\* pcl::ProjectInliers on one point: the point minus its signed distance to
\* the plane along the (unit) normal.
ProjectPoint(p) ==
  LET d == coefficients[1] * p[1] + coefficients[2] * p[2]
             + coefficients[3] * p[3] + coefficients[4]
  IN  << p[1] - d * coefficients[1],
         p[2] - d * coefficients[2],
         p[3] - d * coefficients[3] >>

\* The cloud filter() leaves in projected_point_cloud: it replaces what the
\* output held by one projected point per input point, in input order.
projectPCL2Plane(cloud) == [i \in 1..Len(cloud) |-> ProjectPoint(cloud[i])]

\* fromSTDList2PCLPointCloud with the loop stopping before the last point.
fromSTDList2PCLPointCloud_DropsLast(list, point_cloud) ==
  point_cloud \o SubSeq(list, 1, Len(list) - 1)

\* fromSTDList2PCLPointCloud: push_back of every point of the list.
fromSTDList2PCLPointCloud(list, point_cloud) == point_cloud \o list

\* ------------------------------------------------------ the hull builder

\* Twice the signed area of the triangle o, p, q in the x,y plane.
Cross(o, p, q) ==
  (p[1] - o[1]) * (q[2] - o[2]) - (p[2] - o[2]) * (q[1] - o[1])

\* No three points span a triangle: no hull exists (this covers zero, one
\* and two distinct points, and collinear points).
Degenerate(S) == \A o \in S, p \in S, q \in S : Cross(o, p, q) = 0

\* r lies strictly inside the segment p q (r on the line through them).
Inside(p, q, r) ==
  (p[1] - r[1]) * (q[1] - r[1]) + (p[2] - r[2]) * (q[2] - r[2]) < 0

\* p -> q is an edge of the hull of S walked counter-clockwise.
IsHullEdge(S, p, q) ==
  /\ p # q
  /\ \A r \in S \ {p, q} :
       \/ Cross(p, q, r) > 0
       \/ Cross(p, q, r) = 0 /\ Inside(p, q, r)

RECURSIVE Walk(_, _, _)
\* The counter-clockwise loop of the hull of S that continues acc.
Walk(S, acc, first) ==
  LET next == CHOOSE q \in S : IsHullEdge(S, acc[Len(acc)], q)
  IN  IF next = first THEN acc ELSE Walk(S, Append(acc, next), first)

\* The hull vertices of S in counter-clockwise cyclic order (S spans a
\* triangle).
CcwLoop(S) ==
  LET s == CHOOSE v \in S : \E q \in S : IsHullEdge(S, v, q)
  IN  Walk(S, <<s>>, s)

\* CcwLoop, worked out once for the sets of projected catalogue points.
CcwLoopTable ==
  [ S \in SUBSET { ProjectPoint(Catalogue[i]) : i \in 1..Len(Catalogue) } |->
      IF Degenerate(S) THEN <<>> ELSE CcwLoop(S) ]

\* The boundary loop the builder returns for the cloud: the hull vertices
\* in cyclic order, in the builder's direction w, starting at the hull
\* vertex that comes first in the cloud.
HullLoop(cloud, w) ==
  LET S     == Range(cloud)
      ccw   == IF S \in DOMAIN CcwLoopTable THEN CcwLoopTable[S] ELSE CcwLoop(S)
      V     == Range(ccw)
      first == cloud[CHOOSE i \in 1..Len(cloud) :
                       /\ cloud[i] \in V
                       /\ \A k \in 1..(i - 1) : cloud[k] \notin V]
      at    == CHOOSE k \in 1..Len(ccw) : ccw[k] = first
      loop  == Rotate(ccw, at - 1)
  IN  IF w = "ccw" THEN loop ELSE Reverse(loop)

\* What huller.reconstruct() leaves in (pointsInConvexHull,
\* indicesOfVertexes) for the input cloud: nothing when no hull exists,
\* else the hull points in loop order and the one loop 0, 1, .., n-1.
reconstruct(cloud, w) ==
  IF LET S == Range(cloud)
     IN  IF S \in DOMAIN CcwLoopTable THEN CcwLoopTable[S] = <<>>
         ELSE Degenerate(S)
  THEN [points |-> <<>>, polygons |-> <<>>]
  ELSE LET l == HullLoop(cloud, w)
       IN  [points |-> l, polygons |-> << [i \in 1..Len(l) |-> i - 1] >>]

\* ------------------------------------------------ the constraint generator

\* double ch_boundary = 1e-2, in the units of c.
ch_boundary == 1

\* getLineCoefficients with the sign of the first term of c lost.
getLineCoefficients_SignSlip(p0, p1) ==
  LET x1 == p0[1]
      x2 == p1[1]
      y1 == p0[2]
      y2 == p1[2]
      a_ == y1 - y2
      b_ == x2 - x1
  IN  [a |-> a_, b |-> b_, c |-> b_ * y1 - a_ * x1]

getLineCoefficients(p0, p1) ==
  LET x1 == p0[1]
      x2 == p1[1]
      y1 == p0[2]
      y2 == p1[2]
      a_ == y1 - y2
      b_ == x2 - x1
  IN  [a |-> a_, b |-> b_, c |-> (-b_) * y1 - a_ * x1]

\* RowWithMargin with the two branches of the sign test exchanged.
RowWithMargin_SignSwapped(p0, p1, margin) ==
  LET l == getLineCoefficients(p0, p1)
      row == IF l.c > 0
             THEN [A |-> << l.a, l.b >>, b |-> -l.c]
             ELSE [A |-> << -l.a, -l.b >>, b |-> l.c]
  IN  IF Abs(l.c) <= margin
      THEN [A |-> row.A, b |-> 0]
      ELSE [A |-> row.A, b |-> row.b - margin]

\* RowWithMargin with the margin added to b.
RowWithMargin_MarginAdded(p0, p1, margin) ==
  LET l == getLineCoefficients(p0, p1)
      row == IF l.c <= 0
             THEN [A |-> << l.a, l.b >>, b |-> -l.c]
             ELSE [A |-> << -l.a, -l.b >>, b |-> l.c]
  IN  IF Abs(l.c) <= margin
      THEN [A |-> row.A, b |-> 0]
      ELSE [A |-> row.A, b |-> row.b + margin]

\* RowWithMargin with the else branch writing +a, +b.
RowWithMargin_NoFlip(p0, p1, margin) ==
  LET l == getLineCoefficients(p0, p1)
      row == IF l.c <= 0
             THEN [A |-> << l.a, l.b >>, b |-> -l.c]
             ELSE [A |-> << l.a, l.b >>, b |-> l.c]
  IN  IF Abs(l.c) <= margin
      THEN [A |-> row.A, b |-> 0]
      ELSE [A |-> row.A, b |-> row.b - margin]

\* The row the loop body of getConstraints writes for the edge p0 -> p1
\* when the margin is `margin`.
RowWithMargin(p0, p1, margin) ==
  LET l == getLineCoefficients(p0, p1)
      row == IF l.c <= 0
             THEN [A |-> << l.a, l.b >>, b |-> -l.c]
             ELSE [A |-> << -l.a, -l.b >>, b |-> l.c]
  IN  IF Abs(l.c) <= margin
      THEN [A |-> row.A, b |-> 0]
      ELSE [A |-> row.A, b |-> row.b - margin]

RECURSIVE EdgeList_NoClosingEdge(_, _)
\* EdgeList with the inner loop stopping one vertex early.
EdgeList_NoClosingEdge(loops, i) ==
  IF i > Len(loops) THEN <<>>
  ELSE [j \in 1..(Len(loops[i]) - 1) |-> <<i, j - 1>>]
         \o EdgeList_NoClosingEdge(loops, i + 1)

RECURSIVE EdgeList(_, _)
\* The pairs <<i, j>> the two nested loops of getConstraints visit, in order
\* (i counts the loops from 1, j the vertices of a loop from 0).
EdgeList(loops, i) ==
  IF i > Len(loops) THEN <<>>
  ELSE [j \in 1..Len(loops[i]) |-> <<i, j - 1>>] \o EdgeList(loops, i + 1)

\* EdgeEnds with k one vertex too far.
EdgeEnds_SkipOne(hull, loops, e) ==
  LET vs == loops[e[1]]
      j  == e[2]
      k  == (j + 2) % Len(vs)
  IN  << hull[vs[j + 1] + 1], hull[vs[k + 1] + 1] >>

\* The end points of the edge the loops visit at <<i, j>>.
EdgeEnds(hull, loops, e) ==
  LET vs == loops[e[1]]
      j  == e[2]
      k  == (j + 1) % Len(vs)
  IN  << hull[vs[j + 1] + 1], hull[vs[k + 1] + 1] >>

\* The rows the loops of getConstraints produce, in the order they are
\* written, when the margin is `margin`.
RowsWithMargin(hull, loops, margin) ==
  LET edges == EdgeList(loops, 1)
  IN  [ z \in 1..Len(edges) |->
          LET pq == EdgeEnds(hull, loops, edges[z])
          IN  RowWithMargin(pq[1], pq[2], margin) ]

\* yarp resize to n rows: the old rows that fit are kept, a new row holds fill.
Resize(old, n, fill) == [i \in 1..n |-> IF i <= Len(old) THEN old[i] ELSE fill]

\* getConstraints with A and b resized to one row less than the hull has
\* points.
getConstraints_ShortResize(hull, loops, oldA, oldb, fill) ==
  LET n    == Len(hull) - 1
      rows == RowsWithMargin(hull, loops, ch_boundary)
      rA   == Resize(oldA, n, <<fill, fill>>)
      rb   == Resize(oldb, n, fill)
  IN  [ A |-> [z \in 1..n |-> IF z <= Len(rows) THEN rows[z].A ELSE rA[z]],
        b |-> [z \in 1..n |-> IF z <= Len(rows) THEN rows[z].b ELSE rb[z]],
        z |-> Len(rows) ]

\* getConstraints: A, b and the final value of z.  A write at a row the
\* resize did not allocate is not recorded.
getConstraints(hull, loops, oldA, oldb, fill) ==
  LET n    == Len(hull)
      rows == RowsWithMargin(hull, loops, ch_boundary)
      rA   == Resize(oldA, n, <<fill, fill>>)
      rb   == Resize(oldb, n, fill)
  IN  [ A |-> [z \in 1..n |-> IF z <= Len(rows) THEN rows[z].A ELSE rA[z]],
        b |-> [z \in 1..n |-> IF z <= Len(rows) THEN rows[z].b ELSE rb[z]],
        z |-> Len(rows) ]

\* The values to try for the rows nothing writes: one is enough when every
\* row is written.
FillChoices(hull, loops) ==
  IF Len(EdgeList(loops, 1)) < Len(hull) THEN Unwritten
  ELSE { CHOOSE v \in Unwritten : TRUE }

\* ------------------------------------------------------------ behaviour

\* No thread has been started.
NoThreads ==
  /\ clouds = <<>>
  /\ call = <<>>

\* The supplier is not in use.
NoSupplier ==
  /\ supportPolygonPoints = <<>>
  /\ listBefore = <<>>
  /\ robotSeen = <<>>

\* convex_hull::convex_hull(): both clouds are new and empty; the caller
\* holds some A and b.
Init ==
  /\ NoThreads
  /\ NoSupplier
  /\ _pointCloud = <<>>
  /\ _projectedPointCloud = <<>>
  /\ \E n \in PriorSizes, v \in PriorEntry :
       /\ A = [i \in 1..n |-> <<v, v>>]
       /\ b = [i \in 1..n |-> v]
  /\ points = <<>>
  /\ projIn = <<>>
  /\ hullIn = <<>>
  /\ pointsInConvexHull = <<>>
  /\ indicesOfVertexes = <<>>
  /\ rowsWritten = 0
  /\ outcome = "none"
  /\ winding \in {"ccw", "cw"}

\* getConvexHull with A and b resized to no rows before the error return.
getConvexHull_EmptiesOnError(list) ==
  /\ Len(_pointCloud) <= MaxStale
  /\ \E cloud \in { fromSTDList2PCLPointCloud(list, _pointCloud) } :
     \E proj \in { projectPCL2Plane(cloud) } :
     \E h \in { reconstruct(proj, winding) } :
       /\ points' = list
       /\ projIn' = cloud
       /\ hullIn' = proj
       /\ pointsInConvexHull' = h.points
       /\ indicesOfVertexes' = h.polygons
       /\ UNCHANGED winding
       /\ IF Len(h.polygons) # 1
          THEN /\ outcome' = "error"
               /\ rowsWritten' = 0
               /\ _pointCloud' = cloud
               /\ _projectedPointCloud' = proj
               /\ A' = <<>>
               /\ b' = <<>>
          ELSE /\ \E fill \in FillChoices(h.points, h.polygons) :
                  \E r \in { getConstraints(h.points, h.polygons, A, b, fill) } :
                    /\ A' = r.A
                    /\ b' = r.b
                    /\ rowsWritten' = r.z
               /\ _pointCloud' = <<>>
               /\ _projectedPointCloud' = <<>>
               /\ outcome' = "ok"

\* One call getConvexHull(list, A, b), from entry to return.
getConvexHull(list) ==
  /\ Len(_pointCloud) <= MaxStale
  /\ \E cloud \in { fromSTDList2PCLPointCloud(list, _pointCloud) } :
     \E proj \in { projectPCL2Plane(cloud) } :
     \E h \in { reconstruct(proj, winding) } :
       /\ points' = list
       /\ projIn' = cloud
       /\ hullIn' = proj
       /\ pointsInConvexHull' = h.points
       /\ indicesOfVertexes' = h.polygons
       /\ UNCHANGED winding
       /\ IF Len(h.polygons) # 1
          THEN /\ outcome' = "error"
               /\ rowsWritten' = 0
               /\ _pointCloud' = cloud
               /\ _projectedPointCloud' = proj
               /\ UNCHANGED << A, b >>
          ELSE /\ \E fill \in FillChoices(h.points, h.polygons) :
                  \E r \in { getConstraints(h.points, h.polygons, A, b, fill) } :
                    /\ A' = r.A
                    /\ b' = r.b
                    /\ rowsWritten' = r.z
               /\ _pointCloud' = <<>>
               /\ _projectedPointCloud' = <<>>
               /\ outcome' = "ok"

\* The lists a caller passes: selections of catalogue points.
Lists == SubSeqsOf(Catalogue, MaxLen)

Next ==
  \E list \in Lists :
    getConvexHull(list) /\ UNCHANGED << threadVars, supplierVars >>

Spec == Init /\ [][Next]_vars

\* ------------------------------------------------- two threads calling

Threads == {1, 2}

\* The convex_hull objects the threads may hold.
Objects == {1, 2}

\* The lists the threads pass: three catalogue points each.
ThreadLists == { l \in Lists : Len(l) = 3 }

\* No call made one after the other; two threads are about to call
\* getConvexHull, on one object or on two, each with its own empty A and b.
InitThreads ==
  /\ _pointCloud = <<>>
  /\ _projectedPointCloud = <<>>
  /\ A = <<>>
  /\ b = <<>>
  /\ points = <<>>
  /\ projIn = <<>>
  /\ hullIn = <<>>
  /\ pointsInConvexHull = <<>>
  /\ indicesOfVertexes = <<>>
  /\ rowsWritten = 0
  /\ outcome = "none"
  /\ winding \in {"ccw", "cw"}
  /\ NoSupplier
  /\ clouds = [o \in Objects |->
                 [_pointCloud |-> <<>>, _projectedPointCloud |-> <<>>]]
  /\ \E o \in Objects :
       call = [t \in Threads |->
                 [pc |-> "collect", this |-> IF t = 1 THEN 1 ELSE o,
                  points |-> <<>>, pointsInConvexHull |-> <<>>,
                  indicesOfVertexes |-> <<>>, A |-> <<>>, b |-> <<>>,
                  outcome |-> "none"]]

\* Thread t enters getConvexHull(list, A, b) and runs
\* fromSTDList2PCLPointCloud(points, _pointCloud).
Collect(t, list) ==
  /\ call[t].pc = "collect"
  /\ LET o == call[t].this
     IN  clouds' = [clouds EXCEPT ![o]._pointCloud =
                      fromSTDList2PCLPointCloud(list, @)]
  /\ call' = [call EXCEPT ![t].points = list, ![t].pc = "project"]

\* Thread t runs projectPCL2Plane(_pointCloud, .., _projectedPointCloud).
Project(t) ==
  /\ call[t].pc = "project"
  /\ LET o == call[t].this
     IN  clouds' = [clouds EXCEPT ![o]._projectedPointCloud =
                      projectPCL2Plane(clouds[o]._pointCloud)]
  /\ call' = [call EXCEPT ![t].pc = "hull"]

\* Thread t runs huller.reconstruct on _projectedPointCloud into its locals.
Hull(t) ==
  /\ call[t].pc = "hull"
  /\ \E h \in { reconstruct(clouds[call[t].this]._projectedPointCloud, winding) } :
       call' = [call EXCEPT ![t].pointsInConvexHull = h.points,
                            ![t].indicesOfVertexes = h.polygons,
                            ![t].pc = "constrain"]
  /\ UNCHANGED clouds

\* Thread t tests the number of loops: it returns after ROS_ERROR, or runs
\* getConstraints on its locals and its A and b.
Constrain(t) ==
  /\ call[t].pc = "constrain"
  /\ IF Len(call[t].indicesOfVertexes) # 1
     THEN call' = [call EXCEPT ![t].outcome = "error", ![t].pc = "done"]
     ELSE \E fill \in FillChoices(call[t].pointsInConvexHull,
                                  call[t].indicesOfVertexes) :
          \E r \in { getConstraints(call[t].pointsInConvexHull,
                                    call[t].indicesOfVertexes,
                                    call[t].A, call[t].b, fill) } :
            call' = [call EXCEPT ![t].A = r.A, ![t].b = r.b,
                                 ![t].pc = "clear"]
  /\ UNCHANGED clouds

\* Thread t clears both clouds of its object and returns.
Clear(t) ==
  /\ call[t].pc = "clear"
  /\ clouds' = [clouds EXCEPT ![call[t].this] =
                  [_pointCloud |-> <<>>, _projectedPointCloud |-> <<>>]]
  /\ call' = [call EXCEPT ![t].outcome = "ok", ![t].pc = "done"]

NextThreads ==
  /\ \E t \in Threads :
       \/ \E list \in ThreadLists : Collect(t, list)
       \/ Project(t)
       \/ Hull(t)
       \/ Constrain(t)
       \/ Clear(t)
  /\ UNCHANGED << hullVars, winding, supplierVars >>

SpecThreads == InitThreads /\ [][NextThreads]_vars

\* ------------------------------------------- the support-point supplier

\* The link names, in the order of the push_backs.
names ==
  << "l_foot_lower_left_link", "l_foot_lower_right_link",
     "l_foot_upper_left_link", "l_foot_upper_right_link",
     "r_foot_lower_left_link", "r_foot_lower_right_link",
     "r_foot_upper_left_link", "r_foot_upper_right_link" >>

\* A frame is modelled by its position p.  waist_T_CoM is default
\* constructed (identity rotation) and only its p is set, so the rotation
\* of waist_T_point plays no part in the p of the product.
Frame(v) == [p |-> v]

\* KDL::Frame::Inverse of a frame with identity rotation.
Inverse(F) == [p |-> << -F.p[1], -F.p[2], -F.p[3] >>]

\* KDL operator* of a frame with identity rotation and a frame.
Times(F, G) == [p |-> << F.p[1] + G.p[1], F.p[2] + G.p[2], F.p[3] + G.p[3] >>]

\* The robot states a call may read: the position of every named link in
\* the waist frame (feet side by side, or the right foot a step ahead) and
\* the centre of mass.
Robots ==
  { [ link |-> [ n \in Range(names) |->
                   LET i == CHOOSE k \in 1..Len(names) : names[k] = n
                       y == IF i <= 4 THEN 8 ELSE -8
                       x == IF i <= 4 THEN 0 ELSE step
                   IN  << x + (IF (i - 1) % 4 < 2 THEN -5 ELSE 5),
                          y + (IF i % 2 = 1 THEN 3 ELSE -3),
                          -90 >> ],
      com |-> c ] :
    step \in {0, 10},
    c \in { <<0, 0, -20>>, <<2, 0, -20>>, <<0, -3, -25>>, <<1, 1, -20>> } }

\* The caller holds a list, empty or not; no call has been made.
InitSupplier ==
  /\ _pointCloud = <<>>
  /\ _projectedPointCloud = <<>>
  /\ A = <<>>
  /\ b = <<>>
  /\ points = <<>>
  /\ projIn = <<>>
  /\ hullIn = <<>>
  /\ pointsInConvexHull = <<>>
  /\ indicesOfVertexes = <<>>
  /\ rowsWritten = 0
  /\ outcome = "none"
  /\ winding = "ccw"
  /\ NoThreads
  /\ supportPolygonPoints \in { <<>>, << <<0, 0, 0>> >> }
  /\ listBefore = <<>>
  /\ robotSeen = <<>>

\* The point the loop body pushes for the link `name`.
CoM_T_point(robot, name) ==
  LET waist_T_point == Frame(robot.link[name])
      waist_T_CoM   == Frame(robot.com)
  IN  Times(Inverse(waist_T_CoM), waist_T_point).p

\* One call getSupportPolygonPoints(robot, points) on the caller's list.
getSupportPolygonPoints(robot) ==
  /\ Len(supportPolygonPoints) < Len(names) * MaxPolls
  /\ supportPolygonPoints' =
       supportPolygonPoints
         \o [i \in 1..Len(names) |-> CoM_T_point(robot, names[i])]
  /\ listBefore' = supportPolygonPoints
  /\ robotSeen' = robot

NextSupplier ==
  /\ \E robot \in Robots : getSupportPolygonPoints(robot)
  /\ UNCHANGED << hullVars, winding, threadVars >>

SpecSupplier == InitSupplier /\ [][NextSupplier]_vars

\* ------------------------------------------------------------- claims

\* A call has returned.
Returned == outcome # "none"

\* C1: whenever a call has returned, with success or with the error, both
\* _pointCloud and _projectedPointCloud are empty.
C1_BuffersEmptyOnReturn ==
  Returned => _pointCloud = <<>> /\ _projectedPointCloud = <<>>

\* What a call with the list gives on a newly constructed instance.
FreshHull(list) == reconstruct(projectPCL2Plane(list), winding)

\* C2: whatever calls came before, failed ones included, the last call took
\* the path a new instance takes for its list and, on success, left the A
\* and b a new instance leaves.
C2_SameAsFreshInstance ==
  Returned =>
    LET h == FreshHull(points)
    IN  /\ (outcome = "ok") = (Len(h.polygons) = 1)
        /\ outcome = "ok" =>
             \A fill \in Unwritten :
               LET r == getConstraints(h.points, h.polygons, <<>>, <<>>, fill)
               IN  A = r.A /\ b = r.b

\* C3: when the hull builder reports a number of loops other than one, the
\* constraint generator wrote nothing and the caller's A and b have no rows.
C3_FailureLeavesEmptyAb ==
  (Returned /\ Len(indicesOfVertexes) # 1) =>
    /\ outcome = "error"
    /\ rowsWritten = 0
    /\ A = <<>>
    /\ b = <<>>


\* The row accepts the point p of the plane.
SatRow(row, p) == row.A[1] * p[1] + row.A[2] * p[2] <= row.b

\* The points of the plane the last call was given: its own list, projected.
InputPoints == Range(projectPCL2Plane(points))

\* The rows the last call's hull gives when the margin is m.
HullRows(m) == RowsWithMargin(pointsInConvexHull, indicesOfVertexes, m)

\* The line coefficients of the edge behind row z of the last call.
EdgeLine(z) ==
  LET pq == EdgeEnds(pointsInConvexHull, indicesOfVertexes,
                     EdgeList(indicesOfVertexes, 1)[z])
  IN  getLineCoefficients(pq[1], pq[2])

EdgeCount == Len(EdgeList(indicesOfVertexes, 1))

\* The origin lies strictly inside the last call's hull: strictly on the
\* same side of every edge.
OriginStrictlyInside ==
  /\ EdgeCount >= 3
  /\ \/ \A z \in 1..EdgeCount : EdgeLine(z).c > 0
     \/ \A z \in 1..EdgeCount : EdgeLine(z).c < 0

\* C4 as stated: with margin 0, after a successful call every input point
\* satisfies every row, wherever the origin lies.
C4_ContainmentAnyOrigin ==
  outcome = "ok" =>
    \A p \in InputPoints : \A z \in 1..EdgeCount : SatRow(HullRows(0)[z], p)

\* C4 (amended): with margin 0, after a successful call whose hull has the
\* origin strictly inside, every input point satisfies every row.
C4_ContainmentOriginInside ==
  (outcome = "ok" /\ OriginStrictlyInside) =>
    \A p \in InputPoints : \A z \in 1..EdgeCount : SatRow(HullRows(0)[z], p)

C4_Witness ==
  /\ outcome = "ok"
  /\ OriginStrictlyInside
  /\ \E p \in InputPoints : p \notin Range(pointsInConvexHull)
  /\ \E p \in InputPoints : \E z \in 1..EdgeCount :
       HullRows(0)[z].A[1] * p[1] + HullRows(0)[z].A[2] * p[2] = HullRows(0)[z].b

\* A list is degenerate: its projected points span no triangle.
DegenerateInput(list) == Degenerate(Range(projectPCL2Plane(list)))

\* C5: a call with a degenerate list (no point, fewer than three distinct
\* points, collinear points) ends in the error, with nothing written by the
\* constraint generator and A and b without rows.
C5_DegenerateRejected ==
  (Returned /\ DegenerateInput(points)) =>
    /\ outcome = "error"
    /\ rowsWritten = 0
    /\ Len(A) = 0
    /\ Len(b) = 0

\* C6: after a successful call A and b have one row per vertex of the one
\* loop, and getConstraints wrote exactly that many rows.
C6_RowCount ==
  outcome = "ok" =>
    /\ Len(indicesOfVertexes) = 1
    /\ Len(A) = Len(indicesOfVertexes[1])
    /\ Len(b) = Len(indicesOfVertexes[1])
    /\ rowsWritten = Len(indicesOfVertexes[1])
    /\ Len(indicesOfVertexes[1]) = Cardinality(Range(pointsInConvexHull))

C6_Witness ==
  /\ outcome = "ok"
  /\ Len(A) = 4
  /\ Len(points) = 3

\* The square (1,1,0), (1,-1,0), (-1,-1,0), (-1,1,0).
Square == SubSeq(Catalogue, 1, 4)

\* C7: a call with the square on an instance that holds no left-over points
\* succeeds, its hull is the four points, A and b have four rows, every row
\* accepts the origin and some row rejects (2,2), in either winding.
C7_Square ==
  (Returned /\ points = Square /\ projIn = points) =>
    /\ outcome = "ok"
    /\ Len(pointsInConvexHull) = 4
    /\ Range(pointsInConvexHull) = Range(projectPCL2Plane(Square))
    /\ Len(A) = 4
    /\ Len(b) = 4
    /\ \A z \in 1..4 : SatRow([A |-> A[z], b |-> b[z]], <<0, 0>>)
    /\ \E z \in 1..4 : ~SatRow([A |-> A[z], b |-> b[z]], <<20, 20>>)

C7_Witness ==
  /\ outcome = "ok"
  /\ points = Square
  /\ projIn = points
  /\ winding = "cw"
  /\ b = <<199, 199, 199, 199>>

\* C8: after a successful call, for every edge with |c| > ch_boundary the
\* row is parallel to the edge and its boundary line lies inward of the edge
\* at the distance ch_boundary taken as a length.  (With d = |c| - b[z] in
\* hundredths and the edge length L in tenths, the distance is d / (10 L)
\* and the margin ch_boundary / 100.)
C8_MarginIsDistance ==
  outcome = "ok" =>
    \A z \in 1..Len(A) :
      LET l == EdgeLine(z)
          d == Abs(l.c) - b[z]
      IN  Abs(l.c) > ch_boundary =>
            /\ A[z] \in { << l.a, l.b >>, << -l.a, -l.b >> }
            /\ d > 0
            /\ 100 * d * d = ch_boundary * ch_boundary * (l.a * l.a + l.b * l.b)

\* Margins and points of the plane the margin claims are tried on.
Margins == {0, 1, 20, 200, 300}
TestPoints == { <<x, y>> : x \in {-10, -9, 0, 9, 10}, y \in {-10, -9, 0, 9, 10} }

\* Every row of rows accepts p.
SatAll(rows, p) == \A z \in 1..Len(rows) : SatRow(rows[z], p)

\* C9: for the hull of a successful call and margins m1 < m2, the rows under
\* m2 have the same A and no larger b than under m1, a strictly smaller b
\* where |c| > m2, and every point the rows under m2 accept is accepted by
\* the rows under m1.
C9_MarginMonotone ==
  outcome = "ok" =>
    \A m1 \in Margins, m2 \in Margins :
      m1 < m2 =>
        /\ \A z \in 1..EdgeCount :
             /\ HullRows(m2)[z].A = HullRows(m1)[z].A
             /\ HullRows(m2)[z].b <= HullRows(m1)[z].b
             /\ Abs(EdgeLine(z).c) > m2 => HullRows(m2)[z].b < HullRows(m1)[z].b
        /\ \A p \in TestPoints :
             SatAll(HullRows(m2), p) => SatAll(HullRows(m1), p)

C9_Witness ==
  /\ outcome = "ok"
  /\ \E z \in 1..EdgeCount : Abs(EdgeLine(z).c) > 20
  /\ \E z \in 1..EdgeCount : Abs(EdgeLine(z).c) <= 20 /\ EdgeLine(z).c # 0
  /\ \E p \in TestPoints : SatAll(HullRows(1), p) /\ ~SatAll(HullRows(20), p)

\* C10: the projector gave one point per point of its input cloud, in the
\* same order, each (x, y, 0); an empty cloud gave an empty cloud; and the
\* input cloud is as it was (seen where the call returns without clearing).
C10_Projector ==
  Returned =>
    /\ Len(hullIn) = Len(projIn)
    /\ \A i \in 1..Len(projIn) :
         hullIn[i] = << projIn[i][1], projIn[i][2], 0 >>
    /\ projIn = <<>> => hullIn = <<>>
    /\ outcome = "error" =>
         _pointCloud = projIn /\ _projectedPointCloud = hullIn

C10_Witness ==
  /\ Returned
  /\ \E i \in 1..Len(projIn) : projIn[i][3] # 0
  /\ \E i \in 1..Len(projIn), j \in 1..Len(projIn) : i < j /\ projIn[i] = projIn[j]
  /\ outcome = "error"

\* C11: projecting the projected cloud again changes nothing, and a point
\* of the input cloud with z = 0 is its own projection.
C11_ProjectionIdempotent ==
  Returned =>
    /\ projectPCL2Plane(hullIn) = hullIn
    /\ \A i \in 1..Len(projIn) : projIn[i][3] = 0 => hullIn[i] = projIn[i]
    /\ (\A i \in 1..Len(projIn) : projIn[i][3] = 0) => hullIn = projIn

C11_Witness ==
  /\ Returned
  /\ \E i \in 1..Len(projIn) : projIn[i][3] # 0
  /\ \E i \in 1..Len(projIn) : projIn[i][3] = 0

\* C12: a call whose list holds three points that are not collinear in the
\* plane gets exactly one loop from the hull builder and succeeds, the
\* constraint generator writing a row per edge.
C12_SingleLoop ==
  (Returned /\ ~DegenerateInput(points)) =>
    /\ Len(indicesOfVertexes) = 1
    /\ outcome = "ok"
    /\ rowsWritten >= 3

C12_Witness ==
  /\ outcome = "ok"
  /\ ~DegenerateInput(points)
  /\ Len(points) = 3
  /\ \E i \in 1..3 : points[i][3] # 0

\* C13: after a successful call every row of A and b was written by the
\* call, and A and b are what getConstraints gives for the same hull from
\* any other earlier content of A and b.
C13_RebuiltFromScratch ==
  outcome = "ok" =>
    /\ rowsWritten = Len(A)
    /\ rowsWritten = Len(b)
    /\ \A n \in PriorSizes \cup {1, 3}, v \in PriorEntry \cup {0}, fill \in Unwritten :
         LET r == getConstraints(pointsInConvexHull, indicesOfVertexes,
                                 [i \in 1..n |-> <<v, v>>], [i \in 1..n |-> v], fill)
         IN  A = r.A /\ b = r.b

C13_Witness ==
  /\ outcome = "ok"
  /\ Len(A) = 3
  /\ \A z \in 1..3 : A[z] # <<7, 7>> /\ b[z] # 7

\* C15: before the margin step the row of an edge with coefficients
\* (a, b, c) is ((a, b), -c) when c <= 0 and ((-a, -b), c) when c > 0.
C15_Orientation ==
  outcome = "ok" =>
    \A z \in 1..Len(A) :
      LET l == EdgeLine(z)
      IN  /\ l.c <= 0 => A[z] = << l.a, l.b >> /\ HullRows(0)[z].b = -l.c
          /\ l.c > 0 => A[z] = << -l.a, -l.b >> /\ HullRows(0)[z].b = l.c
          /\ HullRows(0)[z].A = A[z]

C15_Witness ==
  /\ outcome = "ok"
  /\ \E z \in 1..Len(A) : EdgeLine(z).c > 0
  /\ \E z \in 1..Len(A) : EdgeLine(z).c < 0
  /\ \E z \in 1..Len(A) : EdgeLine(z).c = 0

\* C16: with the margin 1e-2 the final b of a row is 0 when |c| <= 1e-2,
\* |c| = 1e-2 included, and |c| - 1e-2 otherwise; the margin step leaves
\* the row of A as the sign test set it.
C16_MarginRule ==
  outcome = "ok" =>
    \A z \in 1..Len(b) :
      LET l == EdgeLine(z)
      IN  /\ Abs(l.c) <= ch_boundary => b[z] = 0
          /\ Abs(l.c) > ch_boundary => b[z] = Abs(l.c) - ch_boundary
          /\ A[z] = (IF l.c <= 0 THEN << l.a, l.b >> ELSE << -l.a, -l.b >>)

C16_Witness ==
  /\ outcome = "ok"
  /\ \E z \in 1..Len(b) : Abs(EdgeLine(z).c) = ch_boundary
  /\ \E z \in 1..Len(b) : Abs(EdgeLine(z).c) > ch_boundary
  /\ \E z \in 1..Len(b) : EdgeLine(z).c = 0

\* C17: for every two points p0, p1 of the last call's cloud,
\* getLineCoefficients gives a = y0 - y1, b = x1 - x0, c = -b y0 - a x0,
\* both points lie on a x + b y + c = 0, and z plays no part.
C17_LineCoefficients ==
  Returned =>
    \A p0 \in Range(projIn), p1 \in Range(projIn) :
      LET l == getLineCoefficients(p0, p1)
      IN  /\ l.a = p0[2] - p1[2]
          /\ l.b = p1[1] - p0[1]
          /\ l.c = -(l.b * p0[2]) - l.a * p0[1]
          /\ l.a * p0[1] + l.b * p0[2] + l.c = 0
          /\ l.a * p1[1] + l.b * p1[2] + l.c = 0
          /\ l = getLineCoefficients(ProjectPoint(p0), ProjectPoint(p1))

C17_Witness ==
  /\ Returned
  /\ \E p0 \in Range(projIn), p1 \in Range(projIn) :
       /\ p0[3] # 0
       /\ getLineCoefficients(p0, p1).c # 0

\* C18: row j (from 0) of A and b comes from the loop's vertices j and
\* (j + 1) mod n, so the rows follow the loop and the last row is the edge
\* from the last vertex back to the first.
C18_EdgeTraversal ==
  outcome = "ok" =>
    LET vs == indicesOfVertexes[1]
        n  == Len(vs)
    IN  /\ Len(A) = n
        /\ \A j \in 0..(n - 1) :
             LET p0  == pointsInConvexHull[vs[j + 1] + 1]
                 p1  == pointsInConvexHull[vs[((j + 1) % n) + 1] + 1]
                 row == RowWithMargin(p0, p1, ch_boundary)
             IN  A[j + 1] = row.A /\ b[j + 1] = row.b
        /\ LET row == RowWithMargin(pointsInConvexHull[vs[n] + 1],
                                    pointsInConvexHull[vs[1] + 1], ch_boundary)
           IN  A[n] = row.A /\ b[n] = row.b

C18_Witness ==
  /\ outcome = "ok"
  /\ Len(A) = 4
  /\ A[4] # A[1]
  /\ A[4] # A[3]

\* C20: every entry of b is >= 0 after a successful call, so every row
\* accepts the origin, also when the origin lies outside the hull.
C20_OriginAlwaysAccepted ==
  outcome = "ok" =>
    \A z \in 1..Len(b) :
      /\ b[z] >= 0
      /\ SatRow([A |-> A[z], b |-> b[z]], <<0, 0>>)

C20_Witness ==
  /\ outcome = "ok"
  /\ \E z \in 1..EdgeCount : EdgeLine(z).c > 0
  /\ \E z \in 1..EdgeCount : EdgeLine(z).c < 0
  /\ \E p \in InputPoints : \E z \in 1..Len(b) : ~SatRow([A |-> A[z], b |-> b[z]], p)

\* What getConvexHull(list, A, b) returns when nothing else runs: the
\* outcome, A and b of a call on a new object with empty A and b.
Alone(list) ==
  LET h == reconstruct(projectPCL2Plane(list), winding)
  IN  IF Len(h.polygons) # 1
      THEN [outcome |-> "error", A |-> <<>>, b |-> <<>>]
      ELSE LET r == getConstraints(h.points, h.polygons, <<>>, <<>>, 0)
           IN  [outcome |-> "ok", A |-> r.A, b |-> r.b]

\* The outcome, A and b thread t holds.
Got(t) == [outcome |-> call[t].outcome, A |-> call[t].A, b |-> call[t].b]

\* C14: however the steps of two calls interleave, a call that has
\* returned holds the outcome, A and b it gives when run alone.
C14_InterleavedAsAlone ==
  \A t \in DOMAIN call : call[t].pc = "done" => Got(t) = Alone(call[t].points)

\* The same for two threads that hold different objects (not the claim).
C14_OnSeparateObjects ==
  \A t \in DOMAIN call :
    (call[t].pc = "done" /\ \A u \in DOMAIN call \ {t} : call[u].this # call[t].this)
       => Got(t) = Alone(call[t].points)

\* The position of the link `name` of the robot state the last call read,
\* relative to the centre of mass.
RelativeToCoM(name) ==
  << robotSeen.link[name][1] - robotSeen.com[1],
     robotSeen.link[name][2] - robotSeen.com[2],
     robotSeen.link[name][3] - robotSeen.com[3] >>

\* C19: after a call of getSupportPolygonPoints the list holds exactly 8
\* points: the lower-left, lower-right, upper-left and upper-right corner of
\* l_foot, then those of r_foot, each relative to the centre of mass.
C19_ExactlyEightPoints ==
  robotSeen # <<>> =>
    supportPolygonPoints =
      << RelativeToCoM("l_foot_lower_left_link"),
         RelativeToCoM("l_foot_lower_right_link"),
         RelativeToCoM("l_foot_upper_left_link"),
         RelativeToCoM("l_foot_upper_right_link"),
         RelativeToCoM("r_foot_lower_left_link"),
         RelativeToCoM("r_foot_lower_right_link"),
         RelativeToCoM("r_foot_upper_left_link"),
         RelativeToCoM("r_foot_upper_right_link") >>

\* The same for a call that began with an empty list (not the claim).
C19_OnEmptyList ==
  (robotSeen # <<>> /\ listBefore = <<>>) =>
    supportPolygonPoints =
      [i \in 1..8 |-> RelativeToCoM(names[i])]

\* C21: the row of an edge whose line misses the origin (c # 0) is the same
\* for p0 -> p1 and for p1 -> p0, so the hull walked in the other direction
\* has it too; an edge with c = 0 gives opposite rows of A with b = 0 in the
\* two directions, which accept different points of the hull.
C21_WindingIndependence ==
  outcome = "ok" =>
    LET other == reconstruct(hullIn, IF winding = "ccw" THEN "cw" ELSE "ccw")
        rev   == RowsWithMargin(other.points, other.polygons, ch_boundary)
    IN  \A z \in 1..Len(A) :
          LET pq   == EdgeEnds(pointsInConvexHull, indicesOfVertexes,
                               EdgeList(indicesOfVertexes, 1)[z])
              l    == getLineCoefficients(pq[1], pq[2])
              row  == [A |-> A[z], b |-> b[z]]
              back == RowWithMargin(pq[2], pq[1], ch_boundary)
          IN  /\ \E y \in 1..Len(rev) : rev[y] = back
              /\ l.c # 0 => back = row
              /\ l.c = 0 =>
                   /\ back.A = << -A[z][1], -A[z][2] >>
                   /\ back.b = 0
                   /\ b[z] = 0
                   /\ \E q \in Range(pointsInConvexHull) :
                        SatRow(row, q) # SatRow(back, q)

C21_Witness ==
  /\ outcome = "ok"
  /\ winding = "cw"
  /\ \E z \in 1..Len(A) : EdgeLine(z).c = 0 /\ A[z] # <<0, 0>>
  /\ \E z \in 1..Len(A) : Abs(EdgeLine(z).c) > ch_boundary

\* C22: a call of getConvexHull that takes the error return (a number of
\* loops other than one) leaves the caller's A and b as they were passed
\* in: the same rows, the same entries.
C22_FailureKeepsAb ==
  [][ (outcome' = "error" \/ Len(indicesOfVertexes') # 1)
        => (A' = A /\ b' = b /\ rowsWritten' = 0) ]_vars

\* A failed call after a successful one: the rows of the successful call
\* are still there.
C22_Witness ==
  /\ outcome = "error"
  /\ Len(points) >= 3
  /\ Len(A) = 4
  /\ Len(b) = 4
  /\ A[1] # <<7, 7>>

RECURSIVE VertexCount(_, _)
\* The number of vertices of the loops from the i-th on.
VertexCount(loops, i) ==
  IF i > Len(loops) THEN 0 ELSE Len(loops[i]) + VertexCount(loops, i + 1)

\* C23: in every call of getConstraints that getConvexHull makes, the loops
\* have no more vertices than there are hull points, every vertex index is
\* the index of a hull point, and z ends no larger than the number of rows
\* of A and b, so every write is to an allocated row.
C23_WriteIndexInRange ==
  outcome = "ok" =>
    /\ VertexCount(indicesOfVertexes, 1) <= Len(pointsInConvexHull)
    /\ rowsWritten = VertexCount(indicesOfVertexes, 1)
    /\ rowsWritten <= Len(A)
    /\ rowsWritten <= Len(b)
    /\ Len(A) = Len(pointsInConvexHull)
    /\ Len(b) = Len(pointsInConvexHull)
    /\ \A i \in 1..Len(indicesOfVertexes) :
         \A j \in 1..Len(indicesOfVertexes[i]) :
           indicesOfVertexes[i][j] \in 0..(Len(pointsInConvexHull) - 1)

\* A call whose cloud held more points than its hull has.
C23_Witness ==
  /\ outcome = "ok"
  /\ Len(hullIn) > Len(pointsInConvexHull)
  /\ rowsWritten = Len(pointsInConvexHull)
  /\ rowsWritten >= 3

====
